---- MODULE Spec2Model ----
(***************************************************************************)
(* K-Means clustering and site scoring of backend/app/services:            *)
(* clustering_service.py (perform_kmeans_clustering and its helpers) and   *)
(* haversine.py (distance, centroid, radius searches).                     *)
(*                                                                         *)
(* Geometry.  All businesses lie on one meridian (equal longitude), so a   *)
(* point is its latitude.  A latitude is an integer number of ticks of arc *)
(* length along the meridian, TicksPerKm ticks to the kilometre.  On a     *)
(* meridian delta_lon = 0, so the haversine formula gives                  *)
(*   a = sin^2(dlat/2),  c = 2*atan2(sqrt a, sqrt(1-a)) = |dlat|,          *)
(* i.e. distance = EARTH_RADIUS_KM * |dlat|: the absolute difference of    *)
(* two latitudes in ticks.  The unit-vector mean of points of one meridian *)
(* that lie a few kilometres apart is their arithmetic mean up to a term   *)
(* of third order in the spread (less than a millimetre here); input       *)
(* latitudes are multiples of Scale = lcm(1..MaxBusinesses) ticks, so the  *)
(* mean of any group of input points is a whole number of ticks.           *)
(*                                                                         *)
(* Floats of the scoring function are fixed-point numbers with four        *)
(* decimals (10000 = 1.0); division truncates.                             *)
(***************************************************************************)
EXTENDS Integers, Sequences, FiniteSets, TLC

\* ---------------------------------------------------------------- bounds
MaxBusinesses == 3    \* longest business list supplied to the entry point
MaxK == 4             \* largest num_clusters supplied
MaxIter == 2          \* largest max_iterations supplied
MaxSite == 11         \* longest business list supplied to the location scorer
MaxCentroids == 9     \* longest centroid list supplied to the assignment

\* ------------------------------------------------------------- arithmetic
Abs(x) == IF x < 0 THEN -x ELSE x

Max(a, b) == IF a >= b THEN a ELSE b

Min(a, b) == IF a <= b THEN a ELSE b

RECURSIVE Gcd(_, _)
Gcd(a, b) == IF b = 0 THEN a ELSE Gcd(b, a % b)

RECURSIVE LcmUpTo(_)
LcmUpTo(n) == IF n <= 1 THEN 1 ELSE LET l == LcmUpTo(n - 1) IN (l * n) \div Gcd(l, n)

\* Input latitudes are multiples of Scale ticks; 10 m = Scale ticks.
Scale == LcmUpTo(MaxBusinesses)

TicksPerKm == 100 * Scale

\* A distance given in metres (a multiple of 10), in ticks.
Metres(m) == (m \div 10) * Scale

RECURSIVE SumSeq(_)
SumSeq(s) == IF Len(s) = 0 THEN 0 ELSE Head(s) + SumSeq(Tail(s))

Range(s) == {s[i] : i \in 1..Len(s)}

\* The number of elements of s that satisfy Test.
CountSeq(s, Test(_)) == Cardinality({i \in 1..Len(s) : Test(s[i])})

\* ------------------------------------------------------------- constants
\* float('inf'), the initial min_distance of a scan.
Infinity == -1

\* ClusteringRequest.num_clusters: Field(5, ge=2, le=10).
MinClusters == 2

MaxClusters == 10

\* Mutant of ThresholdTicks: a threshold of 0.1 km.
ThresholdTicksLoose == TicksPerKm \div 10

\* has_converged's default threshold_km = 0.01.
ThresholdTicks == TicksPerKm \div 100

CLUSTER_COLORS ==
    <<"#3b82f6", "#ef4444", "#10b981", "#f59e0b", "#8b5cf6", "#ec4899", "#06b6d4", "#84cc16">>

\* str.lower() on the category strings of the model.
Lower(s) ==
    CASE s = "Cafe" -> "cafe"
      [] s = "CAFE" -> "cafe"
      [] s = "Retail" -> "retail"
      [] OTHER -> s

\* ------------------------------------------------------------------ inputs
Positions == {Metres(0), Metres(20), Metres(3000)}

Kinds ==
    { [category |-> "Cafe", zone_type |-> "Commercial"],
      [category |-> "Retail", zone_type |-> "Commercial"],
      [category |-> "Retail", zone_type |-> "Residential"] }

\* The business lists supplied: up to MaxBusinesses records, listed from south
\* to north, of any kinds.
BusinessLists ==
    UNION { { [i \in 1..n |->
                 [business_id |-> i, latitude |-> pos[i],
                  category |-> kind[i].category, zone_type |-> kind[i].zone_type]] :
              pos \in {f \in [1..n -> Positions] : \A i \in 1..(n - 1) : f[i] <= f[i + 1]},
              kind \in [1..n -> Kinds] } :
            n \in 0..MaxBusinesses }

TargetCategories == {"CAFE"}

\* The centroid of the cluster handed to the location scorer, and the
\* positions of the businesses around it: at it, to the south and to the
\* north of it, on and off the radii of 500 m, 1 km and 2 km.
SiteCentroids == {Metres(0), Metres(20)}

SitePositions ==
    {Metres(-500), Metres(20), Metres(500), Metres(1000), Metres(2000), Metres(3000)}

\* c copies of the record r.
Run(r, c) == [i \in 1..c |-> r]

\* The business lists supplied to the location scorer: a run of equal
\* records followed by a run of equal records, up to MaxSite records in all,
\* numbered in input order.
SiteBusinessLists ==
    LET Lengths == {p \in (0..MaxSite) \X (0..MaxSite) : p[1] + p[2] <= MaxSite} IN
    { [i \in 1..(n[1] + n[2]) |->
          LET r == (Run(first, n[1]) \o Run(second, n[2]))[i]
          IN  [business_id |-> i, latitude |-> r.latitude,
               category |-> r.kind.category, zone_type |-> r.kind.zone_type]] :
      first \in [latitude : SitePositions, kind : Kinds],
      second \in [latitude : SitePositions, kind : Kinds],
      n \in Lengths }

\* The clusters supplied with a business list: one cluster of all the
\* businesses around the given centroid.
SiteClusters(bs, centroid) ==
    << [id |-> 0,
        centroid |-> centroid,
        points |-> [i \in 1..Len(bs) |-> i],
        color |-> CLUSTER_COLORS[1]] >>

\* The centroid lists supplied to the assignment: none, or a centroid
\* followed by equal centroids, up to MaxCentroids in all.
CentroidLists ==
    {<<>>} \cup { <<first>> \o Run(rest, c) :
                    first \in Positions, rest \in Positions, c \in 0..(MaxCentroids - 1) }

\* The points supplied to the distance function, in whole degrees: the poles
\* and the equator, a quarter turn of longitude apart.
GridLatitudes == {-90, 0, 90}

GridLongitudes == {-180, -90, 0, 90, 180}

GridPoints == [latitude : GridLatitudes, longitude : GridLongitudes]

\* ------------------------------------------------------------------- state
VARIABLES
    businesses,        \* argument: the business records, in input order
    business_category, \* argument: the target category
    num_clusters,      \* argument
    max_iterations,    \* argument
    pc,                \* "start" | "loop" | "finish" | "done" | "raised"
    selected_indices,  \* initialize_centroids: the sampled input indices (from 1)
    centroids,         \* perform_kmeans_clustering: centroids
    new_centroids,     \* perform_kmeans_clustering: new_centroids of the last pass
    clusters,          \* perform_kmeans_clustering: clusters of the last pass
    cluster_scores,    \* find_optimal_location: cluster_scores after the sort
    iterations,        \* perform_kmeans_clustering: iterations
    passes,            \* history: assignment/update passes executed in this call
    error,             \* the exception that left the call, or "none"
    result,            \* the returned dict, or NoResult
    call,              \* history: number of the current invocation
    prev               \* history: sample and result of the previous invocation

vars == <<businesses, business_category, num_clusters, max_iterations, pc,
          selected_indices, centroids, new_centroids, clusters, cluster_scores,
          iterations, passes, error, result, call, prev>>

inputs == <<businesses, business_category, num_clusters, max_iterations>>

NoResult == [returned |-> FALSE]

NoPrev == [called |-> FALSE]

\* ------------------------------------------------------------ haversine.py
\* haversine_distance on one meridian: EARTH_RADIUS_KM * |lat2 - lat1|, in ticks.
haversine_distance(lat1, lat2) == Abs(lat2 - lat1)

EARTH_RADIUS_KM == 6371

\* 2 * sin(delta / 2) ** 2 for delta a whole number of quarter turns, in
\* degrees: the sine squared is 0, 1/2 or 1.
TwiceSinSquaredHalf(delta) ==
    LET r == delta % 360
    IN  CASE r = 0 -> 0
          [] r = 90 -> 1
          [] r = 180 -> 2
          [] r = 270 -> 1

\* cos(lat) for a latitude of -90, 0 or 90 degrees.
Cos(lat) == IF lat = 0 THEN 1 ELSE 0

\* 2 * atan2(sqrt(a), sqrt(1 - a)) in quarter turns, for twice a: a = 0, 1/2
\* and 1 give 0, pi/2 and pi; any other a is outside [0,1], where
\* sqrt(1 - a) raises ValueError (-1 here).
QuarterTurns(twice_a) ==
    CASE twice_a = 0 -> 0
      [] twice_a = 1 -> 1
      [] twice_a = 2 -> 2
      [] OTHER -> -1

\* Mutant of haversine_formula: cos(lat1_rad) taken twice.
haversine_formula_one_cosine(lat1, lon1, lat2, lon2) ==
    LET delta_lat == lat2 - lat1
        delta_lon == lon2 - lon1
        twice_a == TwiceSinSquaredHalf(delta_lat)
                       + Cos(lat1) * Cos(lat1) * TwiceSinSquaredHalf(delta_lon)
        c == QuarterTurns(twice_a)
    IN  IF c < 0 THEN c ELSE EARTH_RADIUS_KM * c

\* haversine_distance, lines 11-25, for points given in whole degrees a
\* quarter turn apart, where the sines and cosines are exact: the distance
\* in units of pi/2 km, or -1 for the ValueError of math.sqrt.
haversine_formula(lat1, lon1, lat2, lon2) ==
    LET delta_lat == lat2 - lat1
        delta_lon == lon2 - lon1
        twice_a == TwiceSinSquaredHalf(delta_lat)
                       + Cos(lat1) * Cos(lat2) * TwiceSinSquaredHalf(delta_lon)
        c == QuarterTurns(twice_a)
    IN  IF c < 0 THEN c ELSE EARTH_RADIUS_KM * c

\* Mutant of LessThan: "<=", so that a later centroid at an equal distance
\* replaces the earlier one.
LessOrEqual(distance, min_distance) == min_distance = Infinity \/ distance <= min_distance

\* distance < min_distance, where min_distance may be float('inf').
LessThan(distance, min_distance) == min_distance = Infinity \/ distance < min_distance

\* calculate_geographic_centroid of a non-empty sequence of latitudes
\* (the empty sequence raises ValueError: see CentroidRaises).
calculate_geographic_centroid(lats) ==
    IF Len(lats) = 1 THEN lats[1] ELSE SumSeq(lats) \div Len(lats)

CentroidRaises(lats) == Len(lats) = 0

\* Mutant of calculate_density_within_radius: "<" for "<=", so that a point
\* exactly on the radius is not counted.
calculate_density_strictly_within(center, lats, radius) ==
    CountSeq(lats, LAMBDA lat : haversine_distance(center, lat) < radius)

\* calculate_density_within_radius: points at distance <= radius.
calculate_density_within_radius(center, lats, radius) ==
    CountSeq(lats, LAMBDA lat : haversine_distance(center, lat) <= radius)

\* Mutant of NearestScan: "<=" for "<", so that a later point at an equal
\* distance replaces the earlier one.
RECURSIVE NearestScanLastWins(_, _, _, _, _)
NearestScanLastWins(location, lats, i, nearest, min_distance) ==
    IF i > Len(lats) THEN [index |-> nearest, distance |-> min_distance]
    ELSE LET distance == haversine_distance(location, lats[i]) IN
         IF distance <= min_distance
         THEN NearestScanLastWins(location, lats, i + 1, i, distance)
         ELSE NearestScanLastWins(location, lats, i + 1, nearest, min_distance)

\* find_nearest_point over a non-empty sequence: the scan from points[1:],
\* replacing the candidate only on a strictly smaller distance.
RECURSIVE NearestScan(_, _, _, _, _)
NearestScan(location, lats, i, nearest, min_distance) ==
    IF i > Len(lats) THEN [index |-> nearest, distance |-> min_distance]
    ELSE LET distance == haversine_distance(location, lats[i]) IN
         IF distance < min_distance
         THEN NearestScan(location, lats, i + 1, i, distance)
         ELSE NearestScan(location, lats, i + 1, nearest, min_distance)

find_nearest_point(location, lats) ==
    IF Len(lats) = 0 THEN [index |-> 0, distance |-> Infinity]
    ELSE NearestScan(location, lats, 2, 1, haversine_distance(location, lats[1]))

\* Mutant of InsertAscending: "<" for "<=", which puts a later element
\* before an earlier one of equal key.
RECURSIVE InsertAscendingUnstable(_, _)
InsertAscendingUnstable(sorted, e) ==
    IF Len(sorted) = 0 THEN <<e>>
    ELSE IF Head(sorted).key < e.key
         THEN <<Head(sorted)>> \o InsertAscendingUnstable(Tail(sorted), e)
         ELSE <<e>> \o sorted

\* list.sort(key=...) ascending, stable: insertion after the elements whose
\* key is not larger.  Elements are records with a field "key".
RECURSIVE InsertAscending(_, _)
InsertAscending(sorted, e) ==
    IF Len(sorted) = 0 THEN <<e>>
    ELSE IF Head(sorted).key <= e.key
         THEN <<Head(sorted)>> \o InsertAscending(Tail(sorted), e)
         ELSE <<e>> \o sorted

RECURSIVE SortAscending(_)
SortAscending(s) ==
    IF Len(s) = 0 THEN <<>>
    ELSE InsertAscending(SortAscending(SubSeq(s, 1, Len(s) - 1)), s[Len(s)])

\* get_points_within_radius: (index, distance) of the points within the
\* radius, sorted by distance.
get_points_within_radius(center, lats, radius) ==
    LET within == SelectSeq([i \in 1..Len(lats) |->
                               [index |-> i, key |-> haversine_distance(center, lats[i])]],
                            LAMBDA e : e.key <= radius)
    IN  SortAscending(within)

\* --------------------------------------------------- clustering_service.py
\* Mutant of Samples: random.choices, which samples with replacement.
SamplesWithReplacement(n, k) == [1..k -> 1..n]

\* random.sample(range(n), k): the sequences of k distinct indices.
Samples(n, k) ==
    {s \in [1..k -> 1..n] : \A i, j \in 1..k : i # j => s[i] # s[j]}

\* initialize_centroids: the coordinates of the sampled points.
initialize_centroids(bs, sel) == [i \in 1..Len(sel) |-> bs[sel[i]].latitude]

\* The inner loop of assign_to_clusters: the index (from 0) of the first
\* centroid at the smallest distance; 0 when there is no centroid.
RECURSIVE ClosestScan(_, _, _, _, _)
ClosestScan(lat, cs, i, min_distance, closest_cluster) ==
    IF i > Len(cs) THEN closest_cluster
    ELSE LET distance == haversine_distance(lat, cs[i]) IN
         IF LessThan(distance, min_distance)
         THEN ClosestScan(lat, cs, i + 1, distance, i - 1)
         ELSE ClosestScan(lat, cs, i + 1, min_distance, closest_cluster)

closest_cluster_of(lat, cs) == ClosestScan(lat, cs, 1, Infinity, 0)

\* Mutant of ClusterPoints: the append moved into the scan, so that a point
\* joins every cluster whose centroid was the closest so far.
ClusterPointsAppendedInScan(bs, cs, id) ==
    SelectSeq([i \in 1..Len(bs) |-> i],
              LAMBDA p : \A m \in 1..id :
                  haversine_distance(bs[p].latitude, cs[id + 1])
                      < haversine_distance(bs[p].latitude, cs[m]))

\* The members of the cluster with the given id: the input indices, in input
\* order, of the points appended to it.
ClusterPoints(bs, cs, id) ==
    SelectSeq([i \in 1..Len(bs) |-> i],
              LAMBDA p : closest_cluster_of(bs[p].latitude, cs) = id)

\* Mutant of ClusterColor: the index clamped to the palette instead of
\* wrapped around it.
ClusterColorClamped(i) == CLUSTER_COLORS[Min(i, Len(CLUSTER_COLORS) - 1) + 1]

\* Line 88: CLUSTER_COLORS[i % len(CLUSTER_COLORS)], i counted from 0.
ClusterColor(i) == CLUSTER_COLORS[(i % Len(CLUSTER_COLORS)) + 1]

\* assign_to_clusters raises IndexError at clusters[closest_cluster] when
\* there is a point and no cluster.
AssignRaises(bs, cs) == Len(bs) > 0 /\ Len(cs) = 0

assign_to_clusters(bs, cs) ==
    [i \in 1..Len(cs) |->
        [id |-> i - 1,
         centroid |-> cs[i],
         points |-> ClusterPoints(bs, cs, i - 1),
         color |-> ClusterColor(i - 1)]]

\* The latitudes of a cluster's members.
PointLats(bs, points) == [j \in 1..Len(points) |-> bs[points[j]].latitude]

\* Mutant of CentroidArguments: the test of line 117 left out, so that the
\* points of every cluster are handed over.
CentroidArgumentsUnguarded(bs, cl) == [i \in 1..Len(cl) |-> PointLats(bs, cl[i].points)]

\* recalculate_centroids, lines 116-120: the point lists it hands to
\* calculate_geographic_centroid, one for every cluster that has points.
CentroidArguments(bs, cl) ==
    LET withPoints == SelectSeq(cl, LAMBDA c : Len(c.points) > 0)
    IN  [i \in 1..Len(withPoints) |-> PointLats(bs, withPoints[i].points)]

\* recalculate_centroids raises what calculate_geographic_centroid raises.
RecalculateRaises(bs, cl) ==
    \E i \in 1..Len(CentroidArguments(bs, cl)) : CentroidRaises(CentroidArguments(bs, cl)[i])

\* Mutant of recalculate_centroids: an empty cluster is reseeded at the
\* first input point.
recalculate_centroids_reseeding(bs, cl) ==
    [i \in 1..Len(cl) |->
        IF Len(cl[i].points) = 0 THEN bs[1].latitude
        ELSE calculate_geographic_centroid(PointLats(bs, cl[i].points))]

\* Mutant of recalculate_centroids: an empty cluster is moved to the centroid
\* of all the points.
recalculate_centroids_recentring(bs, cl) ==
    [i \in 1..Len(cl) |->
        IF Len(cl[i].points) = 0
        THEN calculate_geographic_centroid([j \in 1..Len(bs) |-> bs[j].latitude])
        ELSE calculate_geographic_centroid(PointLats(bs, cl[i].points))]

recalculate_centroids(bs, cl) ==
    [i \in 1..Len(cl) |->
        IF Len(cl[i].points) = 0 THEN cl[i].centroid
        ELSE calculate_geographic_centroid(PointLats(bs, cl[i].points))]

\* Mutant of has_converged: ">" for ">=", so that a move of exactly the
\* threshold counts as converged.
has_converged_inclusive(old, new) ==
    \A i \in 1..Min(Len(old), Len(new)) :
        ~(haversine_distance(old[i], new[i]) > ThresholdTicks)

\* has_converged: False at the first pair at or above the threshold.
RECURSIVE ConvergedFrom(_, _, _)
ConvergedFrom(old, new, i) ==
    IF i > Min(Len(old), Len(new)) THEN TRUE
    ELSE IF haversine_distance(old[i], new[i]) >= ThresholdTicks THEN FALSE
    ELSE ConvergedFrom(old, new, i + 1)

has_converged(old, new) == ConvergedFrom(old, new, 1)

\* Lines 55-56: every cluster's centroid is overwritten by centroids[i].
UpdateClusterCentroids(cl, cs) == [i \in 1..Len(cl) |-> [cl[i] EXCEPT !.centroid = cs[i]]]

\* Optional values: None, or a value.
None == [some |-> FALSE]

Some(v) == [some |-> TRUE, value |-> v]

\* Mutant of IsCompetitor: the categories compared as they are written.
IsCompetitorExact(b, cat) == b.category = cat

\* b["category"].lower() == business_category.lower()
IsCompetitor(b, cat) == Lower(b.category) = Lower(cat)

IsCommercial(b) == b.zone_type = "Commercial"

Lats(bs) == [i \in 1..Len(bs) |-> bs[i].latitude]

\* Lines 302-311: the summary returned when no business is a competitor.
NoCompetitorsSummary ==
    [nearest_competitor |-> None,
     distance_to_nearest |-> None,
     competitors_within_500m |-> 0,
     competitors_within_1km |-> 0,
     competitors_within_2km |-> 0,
     market_saturation |-> 0,
     recommended_strategy |-> "FIRST MOVER"]

\* Mutant of market_saturation: the cap of 1.0 left out.
market_saturation_uncapped(competitors_1km) == (competitors_1km * 10000) \div 10

\* Lines 326-327: min(competitors_1km / max_expected, 1.0), in fixed point.
market_saturation(competitors_1km) ==
    LET max_expected == 10
    IN  Min((competitors_1km * 10000) \div max_expected, 10000)

\* Mutant of recommended_strategy: "<" for "<=" in the bands.
recommended_strategy_exclusive(competitors_500m) ==
    IF competitors_500m = 0 THEN "LOW COMPETITION"
    ELSE IF competitors_500m < 2 THEN "MODERATE COMPETITION"
    ELSE IF competitors_500m < 5 THEN "HIGH COMPETITION"
    ELSE "SATURATED MARKET"

\* Lines 330-337: the label that opens the strategy text.
recommended_strategy(competitors_500m) ==
    IF competitors_500m = 0 THEN "LOW COMPETITION"
    ELSE IF competitors_500m <= 2 THEN "MODERATE COMPETITION"
    ELSE IF competitors_500m <= 5 THEN "HIGH COMPETITION"
    ELSE "SATURATED MARKET"

\* Mutant of DistanceOrNone: the distance tested for truth, so that a
\* distance of 0.0 becomes None.
DistanceOrNoneIfZero(distance) ==
    IF distance # Infinity /\ distance # 0 THEN Some(distance) ELSE None

\* Line 341: distance if distance != float('inf') else None.
DistanceOrNone(distance) == IF distance # Infinity THEN Some(distance) ELSE None

\* Mutant of HasNoCompetitors: the early return of lines 302-311 left out.
NeverWithoutCompetitors(competitors) == FALSE

\* Line 302: not competitors.
HasNoCompetitors(competitors) == Len(competitors) = 0

\* analyze_competitors.  Distances are in ticks, market_saturation is in
\* fixed point (10000 = 1.0).
analyze_competitors(location, bs, cat) ==
    LET competitors == SelectSeq(bs, LAMBDA b : IsCompetitor(b, cat))
        competitor_points == Lats(competitors)
        nearest == find_nearest_point(location, competitor_points)
        competitors_500m ==
            calculate_density_within_radius(location, competitor_points, TicksPerKm \div 2)
        competitors_1km ==
            calculate_density_within_radius(location, competitor_points, TicksPerKm)
        competitors_2km ==
            calculate_density_within_radius(location, competitor_points, 2 * TicksPerKm)
    IN  IF HasNoCompetitors(competitors)
        THEN NoCompetitorsSummary
        ELSE [nearest_competitor |->
                  IF nearest.index # 0 THEN Some(competitors[nearest.index].business_id)
                  ELSE None,
              distance_to_nearest |-> DistanceOrNone(nearest.distance),
              competitors_within_500m |-> competitors_500m,
              competitors_within_1km |-> competitors_1km,
              competitors_within_2km |-> competitors_2km,
              market_saturation |-> market_saturation(competitors_1km),
              recommended_strategy |-> recommended_strategy(competitors_500m)]

\* Mutant of WeightedScore: the competitor share rewarded instead of its
\* complement.
WeightedScoreOfCompetitors(competitor_density, density, commercial_bonus) ==
    (competitor_density * 5) \div 10 + (density * 3) \div 10 + (commercial_bonus * 2) \div 10

\* Line 190: (1 - competitor_density) * 0.5 + density * 0.3 + commercial_bonus * 0.2.
WeightedScore(competitor_density, density, commercial_bonus) ==
    ((10000 - competitor_density) * 5) \div 10
        + (density * 3) \div 10
        + (commercial_bonus * 2) \div 10

\* The score of a non-empty cluster (lines 159-196), in fixed point.
ClusterScore(bs, cat, cluster) ==
    LET n == Len(cluster.points)
        members == [j \in 1..n |-> bs[cluster.points[j]]]
        competitor_count == CountSeq(members, LAMBDA b : IsCompetitor(b, cat))
        total_distance ==
            SumSeq([j \in 1..n |-> haversine_distance(cluster.centroid, members[j].latitude)])
        avg_distance == (total_distance * 10000) \div (n * TicksPerKm)
        floored == Max(avg_distance, 1000)
        squared == (floored * floored) \div 10000
        \* 3.14159 * squared
        area == 3 * squared + (14159 * squared) \div 100000
        density == (n * 100000000) \div area
        competitor_density == (competitor_count * 10000) \div Max(n, 1)
        commercial_count == CountSeq(members, IsCommercial)
        commercial_bonus == (commercial_count * 10000) \div Max(n, 1)
    IN  [cluster |-> cluster,
         score |-> WeightedScore(competitor_density, density, commercial_bonus),
         competitor_count |-> competitor_count]

\* Mutant of InsertDescending: ">" for ">=", which puts a later cluster
\* before an earlier one of equal score.
RECURSIVE InsertDescendingUnstable(_, _)
InsertDescendingUnstable(sorted, e) ==
    IF Len(sorted) = 0 THEN <<e>>
    ELSE IF Head(sorted).score > e.score
         THEN <<Head(sorted)>> \o InsertDescendingUnstable(Tail(sorted), e)
         ELSE <<e>> \o sorted

\* list.sort(key=score, reverse=True): descending, equal scores in their
\* original order.
RECURSIVE InsertDescending(_, _)
InsertDescending(sorted, e) ==
    IF Len(sorted) = 0 THEN <<e>>
    ELSE IF Head(sorted).score >= e.score
         THEN <<Head(sorted)>> \o InsertDescending(Tail(sorted), e)
         ELSE <<e>> \o sorted

RECURSIVE SortDescending(_)
SortDescending(s) ==
    IF Len(s) = 0 THEN <<>>
    ELSE InsertDescending(SortDescending(SubSeq(s, 1, Len(s) - 1)), s[Len(s)])

\* cluster_scores after the sort of line 199: the non-empty clusters.
ScoreClusters(bs, cat, cl) ==
    LET nonempty == SelectSeq(cl, LAMBDA c : Len(c.points) > 0)
    IN  SortDescending([i \in 1..Len(nonempty) |-> ClusterScore(bs, cat, nonempty[i])])

\* Lines 201-207: find_optimal_location raises ValueError when no cluster is
\* scored and there is no business.
LocationRaises(bs, scores) == Len(scores) = 0 /\ CentroidRaises(Lats(bs))

\* Mutant of RecommendedLocation: the centroid of all the businesses, whatever
\* was scored.
RecommendedLocationOfAll(bs, scores) == calculate_geographic_centroid(Lats(bs))

RecommendedLocation(bs, scores) ==
    IF Len(scores) = 0 THEN calculate_geographic_centroid(Lats(bs))
    ELSE scores[1].cluster.centroid

\* Lines 216-232: the first ten of the businesses within 2 km.
NearbyBusinesses(bs, location) ==
    LET nearby == get_points_within_radius(location, Lats(bs), 2 * TicksPerKm)
        first == SubSeq(nearby, 1, Min(Len(nearby), 10))
    IN  [i \in 1..Len(first) |->
            [business_id |-> bs[first[i].index].business_id,
             category |-> bs[first[i].index].category,
             zone_type |-> bs[first[i].index].zone_type,
             distance |-> first[i].key]]

\* Mutant of ZoneType: the slice [:5] left out, so that all the nearby
\* businesses are counted.
ZoneTypeOfAllNearby(nearby_businesses) ==
    IF CountSeq(nearby_businesses, IsCommercial) >= 3 THEN "Commercial" ELSE "Residential"

\* Lines 234-236.
ZoneType(nearby_businesses) ==
    LET first == SubSeq(nearby_businesses, 1, Min(Len(nearby_businesses), 5))
        commercial_count == CountSeq(first, IsCommercial)
    IN  IF commercial_count >= 3 THEN "Commercial" ELSE "Residential"

\* Mutant of Opportunity: "<" for "<=" in the bands of competitors_within_1km.
OpportunityExclusive(competitor_analysis) ==
    IF competitor_analysis.competitors_within_500m = 0
    THEN [opportunity |-> "HIGH OPPORTUNITY", confidence |-> 92]
    ELSE IF competitor_analysis.competitors_within_1km < 2
    THEN [opportunity |-> "MODERATE-HIGH OPPORTUNITY", confidence |-> 78]
    ELSE IF competitor_analysis.competitors_within_1km < 5
    THEN [opportunity |-> "MODERATE OPPORTUNITY", confidence |-> 62]
    ELSE [opportunity |-> "CHALLENGING MARKET", confidence |-> 45]

\* Lines 238-250: the opportunity label and the confidence in hundredths.
Opportunity(competitor_analysis) ==
    IF competitor_analysis.competitors_within_500m = 0
    THEN [opportunity |-> "HIGH OPPORTUNITY", confidence |-> 92]
    ELSE IF competitor_analysis.competitors_within_1km <= 2
    THEN [opportunity |-> "MODERATE-HIGH OPPORTUNITY", confidence |-> 78]
    ELSE IF competitor_analysis.competitors_within_1km <= 5
    THEN [opportunity |-> "MODERATE OPPORTUNITY", confidence |-> 62]
    ELSE [opportunity |-> "CHALLENGING MARKET", confidence |-> 45]

\* Lines 252-274.
FormatClusters(bs, cl) ==
    [i \in 1..Len(cl) |->
        [id |-> cl[i].id,
         centroid |-> cl[i].centroid,
         points |-> [j \in 1..Len(cl[i].points) |->
                        [latitude |-> bs[cl[i].points[j]].latitude,
                         business_id |-> bs[cl[i].points[j]].business_id,
                         category |-> bs[cl[i].points[j]].category]],
         color |-> cl[i].color,
         business_count |-> Len(cl[i].points)]]

\* The dict find_optimal_location returns, with "iterations" added by
\* perform_kmeans_clustering (line 65).
find_optimal_location(bs, cat, cl, scores, iters) ==
    LET recommended_location == RecommendedLocation(bs, scores)
        competitor_analysis == analyze_competitors(recommended_location, bs, cat)
        nearby_businesses == NearbyBusinesses(bs, recommended_location)
        opp == Opportunity(competitor_analysis)
    IN  [returned |-> TRUE,
         clusters |-> FormatClusters(bs, cl),
         recommended_location |-> recommended_location,
         zone_type |-> ZoneType(nearby_businesses),
         analysis |->
             [totalBusinesses |-> Len(bs),
              competitorCount |-> CountSeq(bs, LAMBDA b : IsCompetitor(b, cat)),
              opportunity |-> opp.opportunity,
              confidence |-> opp.confidence],
         competitor_analysis |-> competitor_analysis,
         nearby_businesses |-> nearby_businesses,
         iterations |-> iters]

\* Mutant of CentroidsAtBreak: the assignment of line 52 moved above the
\* convergence check, so that the new centroids are adopted before the break.
CentroidsAdoptedBeforeBreak(old, new) == new

\* Lines 49-50: the break leaves centroids as they were when the pass began;
\* line 52 is not reached.
CentroidsAtBreak(old, new) == old

\* Mutant of InitialClusters: the clusters of an earlier call kept.
StaleClusters(stale) == stale

\* Line 36, clusters = []: whatever an earlier call left.
InitialClusters(stale) == <<>>

\* Mutant of InitialIterations: a counter kept across calls.
StaleIterations(stale) == stale

\* Line 37, iterations = 0: the count starts afresh in every call, whatever
\* an earlier call left.
InitialIterations(stale) == 0

\* Mutant of IterationsAfterPass: the increment moved below the break, so
\* that the converging pass is not counted.
IterationsCountedAfterBreak(iters, converged) == IF converged THEN iters ELSE iters + 1

\* Line 40, iterations += 1 at the head of the pass, before the convergence
\* check can break out of the loop.
IterationsAfterPass(iters, converged) == iters + 1

\* ------------------------------------------------------------ the program
Init ==
    /\ businesses \in BusinessLists
    /\ business_category \in TargetCategories
    /\ num_clusters \in 0..MaxK
    /\ max_iterations \in 0..MaxIter
    /\ pc = "start"
    /\ selected_indices = <<>>
    /\ centroids = <<>>
    /\ new_centroids = <<>>
    /\ clusters = <<>>
    /\ cluster_scores = <<>>
    /\ iterations = 0
    /\ passes = 0
    /\ error = "none"
    /\ result = NoResult
    /\ call = 1
    /\ prev = NoPrev

\* perform_kmeans_clustering, lines 22-37: the points, the sampled centroids,
\* clusters = [] and iterations = 0.  random.sample raises ValueError when the
\* sample is larger than the population.
Initialize ==
    /\ pc = "start"
    /\ IF num_clusters > Len(businesses)
       THEN /\ pc' = "raised"
            /\ error' = "ValueError"
            /\ UNCHANGED <<selected_indices, centroids, clusters, iterations>>
       ELSE /\ \E sel \in Samples(Len(businesses), num_clusters) :
                 /\ selected_indices' = sel
                 /\ centroids' = initialize_centroids(businesses, sel)
            /\ clusters' = InitialClusters(clusters)
            /\ iterations' = InitialIterations(iterations)
            /\ pc' = IF max_iterations > 0 THEN "loop" ELSE "finish"
            /\ UNCHANGED error
    /\ UNCHANGED <<inputs, new_centroids, cluster_scores, passes, result, call, prev>>

\* One pass of the loop of lines 39-52: assignment, update, convergence
\* check, and either the break or the adoption of the new centroids.  An
\* exception of the assignment or of the update leaves the call.
Pass ==
    /\ pc = "loop"
    /\ IF AssignRaises(businesses, centroids)
       THEN /\ pc' = "raised"
            /\ error' = "IndexError"
            /\ iterations' = iterations + 1
            /\ UNCHANGED <<centroids, new_centroids, clusters, passes>>
       ELSE IF RecalculateRaises(businesses, assign_to_clusters(businesses, centroids))
       THEN /\ pc' = "raised"
            /\ error' = "ValueError"
            /\ iterations' = iterations + 1
            /\ clusters' = assign_to_clusters(businesses, centroids)
            /\ UNCHANGED <<centroids, new_centroids, passes>>
       ELSE LET assigned == assign_to_clusters(businesses, centroids)
                updated == recalculate_centroids(businesses, assigned)
                converged == has_converged(centroids, updated)
            IN  /\ clusters' = assigned
                /\ new_centroids' = updated
                /\ passes' = passes + 1
                /\ iterations' = IterationsAfterPass(iterations, converged)
                /\ IF converged
                   THEN /\ pc' = "finish"
                        /\ centroids' = CentroidsAtBreak(centroids, updated)
                   ELSE /\ centroids' = updated
                        /\ pc' = IF iterations + 1 < max_iterations THEN "loop" ELSE "finish"
                /\ UNCHANGED error
    /\ UNCHANGED <<inputs, selected_indices, cluster_scores, result, call, prev>>

\* Lines 54-67: the clusters take the settled centroids, find_optimal_location
\* builds the result and the iteration count is added to it.
Finish ==
    /\ pc = "finish"
    /\ LET final == UpdateClusterCentroids(clusters, centroids)
           scores == ScoreClusters(businesses, business_category, final)
       IN  /\ clusters' = final
           /\ cluster_scores' = scores
           /\ IF LocationRaises(businesses, scores)
              THEN /\ pc' = "raised"
                   /\ error' = "ValueError"
                   /\ UNCHANGED result
              ELSE /\ pc' = "done"
                   /\ result' = find_optimal_location(businesses, business_category,
                                                      final, scores, iterations)
                   /\ UNCHANGED error
    /\ UNCHANGED <<inputs, selected_indices, centroids, new_centroids, iterations,
                   passes, call, prev>>

\* The caller invokes the entry point a second time with the same arguments.
Reinvoke ==
    /\ pc = "done"
    /\ call = 1
    /\ prev' = [called |-> TRUE, selected_indices |-> selected_indices, result |-> result]
    /\ call' = call + 1
    /\ pc' = "start"
    /\ selected_indices' = <<>>
    /\ new_centroids' = <<>>
    /\ cluster_scores' = <<>>
    /\ passes' = 0
    /\ result' = NoResult
    /\ UNCHANGED <<inputs, centroids, clusters, iterations, error>>

Next == Initialize \/ Pass \/ Finish

Spec == Init /\ [][Next]_vars

\* The call has neither returned nor raised.
Running == pc \in {"start", "loop", "finish"}

\* What every step of a call changes: Initialize and Finish change pc, Pass
\* adds one to iterations.
progress == <<pc, iterations>>

\* A step of the running call, as far as progress shows it.  Every step of
\* Next is one, and a running call always has a next step: Initialize, Pass
\* and Finish are total on their values of pc.
Advance ==
    /\ Running
    /\ pc' \in {"loop", "finish", "done", "raised"}
    /\ iterations' \in {0, iterations, iterations + 1}

\* The call runs to its end: it is synchronous and no step of it waits on
\* anything.
FairSpec == Spec /\ WF_progress(Advance)

NextRepeat == Next \/ Reinvoke

\* Two invocations in a row, of calls that ask for at most two clusters and
\* the largest number of passes.
InitRepeat == Init /\ num_clusters <= MinClusters /\ max_iterations = MaxIter

SpecRepeat == InitRepeat /\ [][NextRepeat]_vars

\* find_optimal_location called on its own (it is a function of the
\* module): the dict of lines 276-291, without the "iterations" that only
\* perform_kmeans_clustering adds.
InitSite ==
    /\ businesses \in SiteBusinessLists
    /\ business_category \in TargetCategories
    /\ clusters \in {SiteClusters(businesses, c) : c \in SiteCentroids}
    /\ pc = "scorer"
    /\ num_clusters = 1
    /\ max_iterations = 0
    /\ selected_indices = <<>>
    /\ centroids = <<>>
    /\ new_centroids = <<>>
    /\ cluster_scores = <<>>
    /\ iterations = 0
    /\ passes = 0
    /\ error = "none"
    /\ result = NoResult
    /\ call = 1
    /\ prev = NoPrev

CallFindOptimalLocation ==
    /\ pc = "scorer"
    /\ LET scores == ScoreClusters(businesses, business_category, clusters)
       IN  /\ cluster_scores' = scores
           /\ IF LocationRaises(businesses, scores)
              THEN /\ pc' = "raised"
                   /\ error' = "ValueError"
                   /\ UNCHANGED result
              ELSE /\ pc' = "done"
                   /\ result' =
                          LET r == find_optimal_location(businesses, business_category,
                                                         clusters, scores, 0)
                          IN  [f \in DOMAIN r \ {"iterations"} |-> r[f]]
                   /\ UNCHANGED error
    /\ UNCHANGED <<inputs, selected_indices, centroids, new_centroids, clusters,
                   iterations, passes, call, prev>>

NextSite == CallFindOptimalLocation

SpecSite == InitSite /\ [][NextSite]_vars

\* assign_to_clusters called on its own with a list of centroids, and
\* find_optimal_location called on the clusters it returns.
InitAssign ==
    /\ businesses \in BusinessLists
    /\ business_category \in TargetCategories
    /\ centroids \in CentroidLists
    /\ num_clusters = Len(centroids)
    /\ pc = "assign"
    /\ max_iterations = 0
    /\ selected_indices = <<>>
    /\ new_centroids = <<>>
    /\ clusters = <<>>
    /\ cluster_scores = <<>>
    /\ iterations = 0
    /\ passes = 0
    /\ error = "none"
    /\ result = NoResult
    /\ call = 1
    /\ prev = NoPrev

CallAssignToClusters ==
    /\ pc = "assign"
    /\ IF AssignRaises(businesses, centroids)
       THEN /\ pc' = "raised"
            /\ error' = "IndexError"
            /\ UNCHANGED clusters
       ELSE /\ pc' = "scorer"
            /\ clusters' = assign_to_clusters(businesses, centroids)
            /\ UNCHANGED error
    /\ UNCHANGED <<inputs, selected_indices, centroids, new_centroids, cluster_scores,
                   iterations, passes, result, call, prev>>

NextAssign == CallAssignToClusters \/ CallFindOptimalLocation

SpecAssign == InitAssign /\ [][NextAssign]_vars

\* haversine_distance called on its own: from the first point to the second,
\* from the second to the first, and from the first to itself.
InitDistance ==
    /\ businesses \in [1..2 -> GridPoints]
    /\ business_category \in TargetCategories
    /\ pc = "distance"
    /\ num_clusters = 0
    /\ max_iterations = 0
    /\ selected_indices = <<>>
    /\ centroids = <<>>
    /\ new_centroids = <<>>
    /\ clusters = <<>>
    /\ cluster_scores = <<>>
    /\ iterations = 0
    /\ passes = 0
    /\ error = "none"
    /\ result = NoResult
    /\ call = 1
    /\ prev = NoPrev

CallHaversineDistance ==
    /\ pc = "distance"
    /\ LET a == businesses[1]
           b == businesses[2]
       IN  result' =
               [returned |-> TRUE,
                forward |-> haversine_formula(a.latitude, a.longitude, b.latitude, b.longitude),
                backward |-> haversine_formula(b.latitude, b.longitude, a.latitude, a.longitude),
                self |-> haversine_formula(a.latitude, a.longitude, a.latitude, a.longitude)]
    /\ pc' = "done"
    /\ UNCHANGED <<inputs, selected_indices, centroids, new_centroids, clusters,
                   cluster_scores, iterations, passes, error, call, prev>>

NextDistance == CallHaversineDistance

SpecDistance == InitDistance /\ [][NextDistance]_vars

\* ------------------------------------------------------------------ claims
\* A pass has been executed and the call has not yet overwritten the
\* centroids the clusters were assigned against (lines 55-56).
AfterPass == passes >= 1 /\ pc \in {"loop", "finish"}

\* Every old/new centroid pair of the last pass is strictly below the
\* threshold.
AllBelowThreshold ==
    \A i \in 1..Len(clusters) :
        haversine_distance(clusters[i].centroid, new_centroids[i]) < ThresholdTicks

\* The number of times input index p is listed in the member lists.
Occurrences(members, p) ==
    SumSeq([i \in 1..Len(members) |->
               Cardinality({j \in 1..Len(members[i]) : members[i][j] = p})])

IsPartition(members, n) ==
    /\ \A i \in 1..Len(members) : \A j \in 1..Len(members[i]) : members[i][j] \in 1..n
    /\ \A p \in 1..n : Occurrences(members, p) = 1

ValidInput ==
    /\ Len(businesses) >= 1
    /\ num_clusters \in MinClusters..MaxClusters
    /\ num_clusters <= Len(businesses)
    /\ max_iterations >= 1

\* C2: on valid input the call returns, and the iteration count it reports
\* is the number of passes executed, between 1 and max_iterations.
C2_Termination ==
    /\ ValidInput => <>(pc = "done")
    /\ [](pc = "done" =>
            /\ result.iterations = passes
            /\ ValidInput => (1 <= result.iterations /\ result.iterations <= max_iterations))

\* A run that broke out by convergence below the cap, and one that was cut
\* by the cap without converging.
C2_Witness ==
    /\ pc = "finish"
    /\ ValidInput
    /\ passes = 2
    /\ iterations = max_iterations
    /\ ~AllBelowThreshold

\* C3 as claimed: a cluster count outside [2,10] or above the number of
\* points never yields a returned result.
C3_InvalidKRejected ==
    (num_clusters \notin MinClusters..MaxClusters \/ num_clusters > Len(businesses))
        => pc # "done"

\* C4 as claimed: with an empty business list no pass is executed and no
\* result is returned, whatever k is.
C4_EmptyInputRejected ==
    Len(businesses) = 0 => (passes = 0 /\ iterations = 0 /\ pc # "done")

\* C5: after every pass, a cluster that received no member has as its new
\* centroid the centroid it had when the pass began.
C5_EmptyClusterKeepsCentroid ==
    AfterPass =>
        \A i \in 1..Len(clusters) :
            Len(clusters[i].points) = 0 => new_centroids[i] = clusters[i].centroid

C5_Witness ==
    /\ AfterPass
    /\ \E i \in 1..Len(clusters) :
          /\ Len(clusters[i].points) = 0
          /\ new_centroids[i] # businesses[1].latitude

\* C6: after every pass each member of a cluster is at least as close to
\* that cluster's centroid as to any other centroid, and no lower-indexed
\* centroid is equally close.
C6_NearestCentroidLowestIndex ==
    AfterPass =>
        \A i \in 1..Len(clusters) : \A j \in 1..Len(clusters[i].points) :
            LET lat == businesses[clusters[i].points[j]].latitude
                own == haversine_distance(lat, clusters[i].centroid)
            IN  \A m \in 1..Len(clusters) :
                    LET other == haversine_distance(lat, clusters[m].centroid)
                    IN  own <= other /\ (own = other => i <= m)

\* A point equally close to two centroids, placed with the first.
C6_Witness ==
    /\ AfterPass
    /\ \E i, m \in 1..Len(clusters) : \E j \in 1..Len(clusters[i].points) :
          LET lat == businesses[clusters[i].points[j]].latitude
          IN  /\ i < m
              /\ haversine_distance(lat, clusters[i].centroid)
                    = haversine_distance(lat, clusters[m].centroid)

\* C7: a pass whose pairs are all strictly below the threshold ends the loop
\* with the centroids unchanged; any other pass adopts the new centroids and
\* is followed by another pass unless the cap is reached.
C7_ConvergenceStopsLoop ==
    AfterPass =>
        IF AllBelowThreshold
        THEN /\ pc = "finish"
             /\ centroids = [i \in 1..Len(clusters) |-> clusters[i].centroid]
        ELSE /\ centroids = new_centroids
             /\ pc = (IF iterations < max_iterations THEN "loop" ELSE "finish")

\* A pass in which a centroid moved by exactly the threshold: the loop goes on.
C7_Witness ==
    /\ AfterPass
    /\ pc = "loop"
    /\ \A i \in 1..Len(clusters) :
          haversine_distance(clusters[i].centroid, new_centroids[i]) <= ThresholdTicks
    /\ \E i \in 1..Len(clusters) :
          haversine_distance(clusters[i].centroid, new_centroids[i]) = ThresholdTicks

AfterInitialize == pc \in {"loop", "finish"} /\ passes = 0

\* C9: the initial centroids are k in number, each the location of the
\* sampled input point, and no input index is sampled twice.
C9_SampleWithoutReplacement ==
    AfterInitialize =>
        /\ Len(centroids) = num_clusters
        /\ Len(selected_indices) = num_clusters
        /\ \A i \in 1..num_clusters :
              /\ selected_indices[i] \in 1..Len(businesses)
              /\ centroids[i] = businesses[selected_indices[i]].latitude
        /\ \A i, j \in 1..num_clusters :
              i # j => selected_indices[i] # selected_indices[j]

\* Two distinct businesses at one location are both sampled.
C9_Witness ==
    /\ AfterInitialize
    /\ num_clusters = 2
    /\ centroids[1] = centroids[2]

\* C10: the scored clusters are the non-empty ones, in descending order of
\* score with equal scores in cluster-id order, and the recommended location
\* is the centroid of the first of them, the lowest-id cluster of maximum
\* score.
C10_RankedByScore ==
    (pc = "done" /\ Len(cluster_scores) > 0) =>
        /\ \A i \in 1..Len(clusters) :
              Len(clusters[i].points) > 0 =>
                  Cardinality({r \in 1..Len(cluster_scores) :
                                  cluster_scores[r].cluster = clusters[i]}) = 1
        /\ \A r \in 1..Len(cluster_scores) :
              /\ Len(cluster_scores[r].cluster.points) > 0
              /\ cluster_scores[r].cluster \in Range(clusters)
        /\ \A r, t \in 1..Len(cluster_scores) :
              r < t =>
                  \/ cluster_scores[r].score > cluster_scores[t].score
                  \/ /\ cluster_scores[r].score = cluster_scores[t].score
                     /\ cluster_scores[r].cluster.id < cluster_scores[t].cluster.id
        /\ result.recommended_location = cluster_scores[1].cluster.centroid

\* Two clusters of equal, maximal score at different places.
C10_Witness ==
    /\ pc = "done"
    /\ Len(cluster_scores) >= 2
    /\ cluster_scores[1].score = cluster_scores[2].score
    /\ cluster_scores[1].cluster.centroid # cluster_scores[2].cluster.centroid

\* The distance of input business i from the recommended location of the
\* returned result.
DistanceFromSite(i) == Abs(businesses[i].latitude - result.recommended_location)

\* The input businesses whose category is the target category, letter case
\* aside.
Rivals == {i \in 1..Len(businesses) : Lower(businesses[i].category) = Lower(business_category)}

RivalsWithin(radius) == Cardinality({i \in Rivals : DistanceFromSite(i) <= radius})

\* Business i comes before business j when the businesses are listed by
\* distance from the recommended location, equal distances in input order.
NearerThan(i, j) ==
    \/ DistanceFromSite(i) < DistanceFromSite(j)
    \/ DistanceFromSite(i) = DistanceFromSite(j) /\ i < j

\* The (up to) five businesses nearest to the recommended location.
FiveNearest ==
    {i \in 1..Len(businesses) :
        Cardinality({j \in 1..Len(businesses) : NearerThan(j, i)}) < 5}

CommercialAmong(S) == Cardinality({i \in S : businesses[i].zone_type = "Commercial"})

\* pi * max(mean distance, 0.1 km)^2 for n members at the given total distance
\* (in ticks), and n over it: the spatial density, in fixed point.
SpatialDensity(n, total) ==
    LET mean == (total * 10000) \div (n * TicksPerKm)
        floored == IF mean < 1000 THEN 1000 ELSE mean
        squared == (floored * floored) \div 10000
    IN  (n * 100000000) \div (3 * squared + (14159 * squared) \div 100000)

\* C11: every scored cluster is non-empty and its score is
\* 0.5*(1 - competitorDensity) + 0.3*spatialDensity + 0.2*commercialFraction
\* of its members; the clusters without members are not scored.
C11_ScoreFormula ==
    pc = "done" =>
        /\ Len(cluster_scores) = Cardinality({i \in 1..Len(clusters) : Len(clusters[i].points) > 0})
        /\ \A r \in 1..Len(cluster_scores) :
              LET c == cluster_scores[r].cluster
                  members == Range(c.points)
                  n == Cardinality(members)
                  total == SumSeq([j \in 1..Len(c.points) |->
                                      Abs(businesses[c.points[j]].latitude - c.centroid)])
                  competitorDensity == (Cardinality(members \cap Rivals) * 10000) \div n
                  commercialFraction == (CommercialAmong(members) * 10000) \div n
              IN  /\ n > 0
                  /\ cluster_scores[r].score =
                        (5 * (10000 - competitorDensity)) \div 10
                            + (3 * SpatialDensity(n, total)) \div 10
                            + (2 * commercialFraction) \div 10

\* A scored cluster whose members lie more than 0.1 km from its centroid on
\* average, some of them competitors and some not Commercial, next to a
\* cluster without members.
C11_Witness ==
    /\ pc = "done"
    /\ \E i \in 1..Len(clusters) : Len(clusters[i].points) = 0
    /\ \E r \in 1..Len(cluster_scores) :
          LET c == cluster_scores[r].cluster
          IN  /\ SumSeq([j \in 1..Len(c.points) |->
                            Abs(businesses[c.points[j]].latitude - c.centroid)])
                    > Len(c.points) * (TicksPerKm \div 10)
              /\ Range(c.points) \cap Rivals # {}
              /\ Range(c.points) \ Rivals # {}
              /\ CommercialAmong(Range(c.points)) < Len(c.points)

\* C12 as claimed: whenever the location scorer is given clusters that are
\* all empty, it returns a result whose location is the centroid (here the
\* mean) of all the input businesses.
C12_FallbackNeverFails ==
    [][ (pc = "finish" /\ \A i \in 1..Len(clusters) : Len(clusters[i].points) = 0)
            => /\ pc' = "done"
               /\ result'.recommended_location * Len(businesses) = SumSeq(Lats(businesses)) ]_vars

\* C13: the opportunity label and the confidence follow from the numbers of
\* competitors within 500 m and within 1 km of the recommended location, the
\* four cases tried in order.
C13_OpportunityLookup ==
    pc = "done" =>
        LET within500m == RivalsWithin(TicksPerKm \div 2)
            within1km == RivalsWithin(TicksPerKm)
            expected ==
                IF within500m = 0 THEN <<"HIGH OPPORTUNITY", 92>>
                ELSE IF within1km <= 2 THEN <<"MODERATE-HIGH OPPORTUNITY", 78>>
                ELSE IF within1km <= 5 THEN <<"MODERATE OPPORTUNITY", 62>>
                ELSE <<"CHALLENGING MARKET", 45>>
        IN  /\ <<result.analysis.opportunity, result.analysis.confidence>> = expected
            /\ result.analysis.confidence \in {92, 78, 62, 45}

\* A competitor within 500 m and exactly five within 1 km.
C13_Witness ==
    /\ pc = "done"
    /\ RivalsWithin(TicksPerKm \div 2) > 0
    /\ RivalsWithin(TicksPerKm) = 5
    /\ result.analysis.confidence = 62

\* C14 as claimed: the zone type is Commercial exactly when at least three
\* of the five businesses nearest to the recommended location, taken over all
\* the businesses, are Commercial.
C14_FiveNearestOfAll ==
    pc = "done" =>
        (result.zone_type = "Commercial" <=> CommercialAmong(FiveNearest) >= 3)

\* C14 amended: only those of the five nearest that lie within 2 km of the
\* recommended location are counted.
C14_FiveNearestWithin2km ==
    pc = "done" =>
        /\ result.zone_type \in {"Commercial", "Residential"}
        /\ result.zone_type = "Commercial" <=>
              CommercialAmong({i \in FiveNearest : DistanceFromSite(i) <= 2 * TicksPerKm}) >= 3

\* Four Commercial and one Residential among the five nearest, all within
\* 2 km, and more businesses behind them.
C14_Witness ==
    /\ pc = "done"
    /\ Len(businesses) > 5
    /\ \A i \in FiveNearest : DistanceFromSite(i) <= 2 * TicksPerKm
    /\ CommercialAmong(FiveNearest) = 4
    /\ result.zone_type = "Commercial"

\* C15: nearby_businesses lists the businesses within 2 km of the recommended
\* location, or the ten nearest of them, each with its distance, in ascending
\* order of distance with equal distances in input order; no business that is
\* left out and lies within 2 km is strictly closer than a listed one.
C15_NearbyBusinesses ==
    pc = "done" =>
        LET nearby == result.nearby_businesses
            within2km == {i \in 1..Len(businesses) : DistanceFromSite(i) <= 2 * TicksPerKm}
            listed == {nearby[k].business_id : k \in 1..Len(nearby)}
        IN  /\ Len(nearby) = (IF Cardinality(within2km) <= 10 THEN Cardinality(within2km) ELSE 10)
            /\ listed \subseteq within2km
            /\ \A k \in 1..Len(nearby) :
                  nearby[k].distance = DistanceFromSite(nearby[k].business_id)
            /\ \A k, l \in 1..Len(nearby) :
                  k < l =>
                      \/ nearby[k].distance < nearby[l].distance
                      \/ /\ nearby[k].distance = nearby[l].distance
                         /\ nearby[k].business_id < nearby[l].business_id
            /\ \A i \in within2km \ listed : \A k \in 1..Len(nearby) :
                  ~(DistanceFromSite(i) < nearby[k].distance)

\* More than ten businesses within 2 km, the list cut inside a group of
\* equally distant ones that were supplied before nearer ones.
C15_Witness ==
    /\ pc = "done"
    /\ Len(result.nearby_businesses) = 10
    /\ \E i \in 1..Len(businesses) :
          /\ i \notin {result.nearby_businesses[k].business_id : k \in 1..10}
          /\ DistanceFromSite(i) = result.nearby_businesses[10].distance
    /\ result.nearby_businesses[1].business_id > result.nearby_businesses[10].business_id

\* C16: when no business is of the target category, the competitor summary
\* has no nearest competitor and no distance, counts of 0, a saturation of
\* 0.0 and the first-mover strategy.
C16_NoCompetitors ==
    (pc = "done" /\ Rivals = {}) =>
        /\ result.competitor_analysis.nearest_competitor = None
        /\ result.competitor_analysis.distance_to_nearest = None
        /\ result.competitor_analysis.competitors_within_500m = 0
        /\ result.competitor_analysis.competitors_within_1km = 0
        /\ result.competitor_analysis.competitors_within_2km = 0
        /\ result.competitor_analysis.market_saturation = 0
        /\ result.competitor_analysis.recommended_strategy = "FIRST MOVER"

\* Businesses of other categories right at the recommended location.
C16_Witness ==
    /\ pc = "done"
    /\ Rivals = {}
    /\ \E i \in 1..Len(businesses) : DistanceFromSite(i) <= TicksPerKm \div 2

\* C17: the market saturation is min(within1km / 10, 1): between 0 and 1, and
\* 1 from ten competitors within 1 km on.
C17_SaturationBound ==
    pc = "done" =>
        LET within1km == RivalsWithin(TicksPerKm)
            saturation == result.competitor_analysis.market_saturation
        IN  /\ saturation \in 0..10000
            /\ saturation * 10 = (IF within1km >= 10 THEN 100000 ELSE within1km * 10000)

\* More than ten competitors within 1 km.
C17_Witness ==
    /\ pc = "done"
    /\ RivalsWithin(TicksPerKm) > 10
    /\ result.competitor_analysis.market_saturation = 10000

\* C18: when there is a competitor, the strategy follows from the number of
\* competitors within 500 m alone: 0, 1-2, 3-5, more than 5.
C18_StrategyBands ==
    (pc = "done" /\ Rivals # {}) =>
        LET within500m == RivalsWithin(TicksPerKm \div 2)
        IN  result.competitor_analysis.recommended_strategy =
                (IF within500m = 0 THEN "LOW COMPETITION"
                 ELSE IF within500m \in 1..2 THEN "MODERATE COMPETITION"
                 ELSE IF within500m \in 3..5 THEN "HIGH COMPETITION"
                 ELSE "SATURATED MARKET")

\* Exactly five competitors within 500 m, and others farther away.
C18_Witness ==
    /\ pc = "done"
    /\ RivalsWithin(TicksPerKm \div 2) = 5
    /\ RivalsWithin(TicksPerKm) > 5
    /\ result.competitor_analysis.recommended_strategy = "HIGH COMPETITION"

\* C19: the nearest competitor reported is the first competitor, in input
\* order, at the smallest distance from the recommended location, and the
\* distance reported is that distance.
C19_NearestIsFirstMinimal ==
    (pc = "done" /\ Rivals # {}) =>
        /\ result.competitor_analysis.nearest_competitor.some
        /\ result.competitor_analysis.distance_to_nearest.some
        /\ LET nearest == result.competitor_analysis.nearest_competitor.value
               distance == result.competitor_analysis.distance_to_nearest.value
           IN  /\ nearest \in Rivals
               /\ distance = DistanceFromSite(nearest)
               /\ \A j \in Rivals :
                     /\ distance <= DistanceFromSite(j)
                     /\ DistanceFromSite(j) = distance => nearest <= j

\* Two competitors at the smallest distance, one to the north and one to the
\* south of the recommended location: the one supplied first is reported.
C19_Witness ==
    /\ pc = "done"
    /\ result.competitor_analysis.nearest_competitor.some
    /\ \E j \in Rivals :
          /\ j > result.competitor_analysis.nearest_competitor.value
          /\ DistanceFromSite(j) = result.competitor_analysis.distance_to_nearest.value
          /\ businesses[j].latitude
                # businesses[result.competitor_analysis.nearest_competitor.value].latitude

\* C20: each of the three counts of the competitor summary is the number of
\* competitors at a distance of at most the radius, the radius included.
C20_CountWithinRadius ==
    (pc = "done" /\ Rivals # {}) =>
        /\ result.competitor_analysis.competitors_within_500m = RivalsWithin(TicksPerKm \div 2)
        /\ result.competitor_analysis.competitors_within_1km = RivalsWithin(TicksPerKm)
        /\ result.competitor_analysis.competitors_within_2km = RivalsWithin(2 * TicksPerKm)

\* Competitors exactly on a radius, counted, and competitors beyond it, not
\* counted.
C20_Witness ==
    /\ pc = "done"
    /\ \E i \in Rivals : DistanceFromSite(i) = TicksPerKm \div 2
    /\ \E i \in Rivals : DistanceFromSite(i) > 2 * TicksPerKm
    /\ result.competitor_analysis.competitors_within_500m >= 1
    /\ result.competitor_analysis.competitors_within_2km < Cardinality(Rivals)

\* Non-empty input and a cluster count between 1 and the number of businesses.
FeasibleInput == Len(businesses) >= 1 /\ num_clusters \in 1..Len(businesses)

\* C21: on non-empty input with 1 <= k <= n no call of the centroid function
\* is given an empty sequence: the call never ends in its ValueError, nor in
\* any other exception, in the engine or in the scorer.
C21_CentroidNeverOfEmpty ==
    FeasibleInput => (pc # "raised" /\ error = "none")

\* A returned run in which a cluster received no point.
C21_Witness ==
    /\ FeasibleInput
    /\ pc = "done"
    /\ passes >= 1
    /\ \E i \in 1..Len(clusters) : Len(clusters[i].points) = 0

C23_AnalysisCounts ==
    pc = "done" =>
        /\ result.analysis.totalBusinesses = Len(businesses)
        /\ result.analysis.competitorCount = Cardinality(Rivals)

\* Competitors, written in another letter case than the target, in two
\* clusters, next to a business of another category.
C23_Witness ==
    /\ pc = "done"
    /\ Rivals # {}
    /\ Cardinality(Rivals) < Len(businesses)
    /\ \A i \in Rivals : businesses[i].category # business_category
    /\ \E c, d \in 1..Len(clusters) :
          /\ c # d
          /\ Range(clusters[c].points) \cap Rivals # {}
          /\ Range(clusters[d].points) \cap Rivals # {}

\* C25: when the last pass converged, every cluster is reported with the
\* centroid that pass assigned against, and every reported member is at
\* least as close to its cluster's reported centroid as to any other, no
\* lower-indexed centroid being equally close.
C25_ConvergedCentroidsAreAssigned ==
    [][ (pc = "finish" /\ passes >= 1 /\ AllBelowThreshold /\ pc' = "done") =>
            /\ Len(result'.clusters) = Len(clusters)
            /\ \A i \in 1..Len(clusters) :
                  /\ result'.clusters[i].centroid = clusters[i].centroid
                  /\ \A j \in 1..Len(result'.clusters[i].points) :
                        LET lat == result'.clusters[i].points[j].latitude
                            own == Abs(lat - result'.clusters[i].centroid)
                        IN  \A m \in 1..Len(clusters) :
                                LET other == Abs(lat - result'.clusters[m].centroid)
                                IN  own <= other /\ (own = other => i <= m) ]_vars

\* A run that stopped on a pass in which a centroid moved, by less than the
\* threshold: the centroid reported is not the one the pass computed.
C25_Witness ==
    /\ pc = "done"
    /\ passes >= 1
    /\ \E i \in 1..Len(clusters) :
          /\ result.clusters[i].centroid # new_centroids[i]
          /\ result.clusters[i].business_count >= 2

\* C26: in a result returned after a pass, the reported centroid of every
\* non-empty cluster lies less than 0.01 km from the centroid (the mean) of
\* the members reported for it.
C26_ReportedCentroidNearMembers ==
    (pc = "done" /\ passes >= 1) =>
        \A i \in 1..Len(result.clusters) :
            LET points == result.clusters[i].points
                n == Len(points)
                sum == SumSeq([j \in 1..n |-> points[j].latitude])
            IN  n > 0 => Abs(result.clusters[i].centroid * n - sum) < (TicksPerKm \div 100) * n

\* A cluster of three reported with a centroid off the mean of its members.
C26_Witness ==
    /\ pc = "done"
    /\ passes >= 1
    /\ \E i \in 1..Len(result.clusters) :
          LET points == result.clusters[i].points
          IN  /\ Len(points) = 3
              /\ result.clusters[i].centroid * 3
                    # SumSeq([j \in 1..3 |-> points[j].latitude])

\* Every non-empty cluster's centroid moved by less than the threshold in the
\* last pass.
NonEmptyBelowThreshold ==
    \A i \in 1..Len(clusters) :
        Len(clusters[i].points) > 0 =>
            haversine_distance(clusters[i].centroid, new_centroids[i]) < ThresholdTicks

\* C27: after every pass the centroid of a cluster without members has not
\* moved, and the pass ended the loop by convergence exactly when every
\* non-empty cluster's centroid moved by less than the threshold.
C27_EmptyClusterNeverBlocks ==
    AfterPass =>
        /\ Len(new_centroids) = Len(clusters)
        /\ \A i \in 1..Len(clusters) :
              Len(clusters[i].points) = 0 =>
                  haversine_distance(clusters[i].centroid, new_centroids[i]) = 0
        /\ IF NonEmptyBelowThreshold
           THEN /\ pc = "finish"
                /\ centroids = [i \in 1..Len(clusters) |-> clusters[i].centroid]
           ELSE /\ centroids = new_centroids
                /\ pc = (IF iterations < max_iterations THEN "loop" ELSE "finish")

\* A run that converged below the cap and returned a cluster without members
\* at the location it was sampled at.
C27_Witness ==
    /\ pc = "done"
    /\ passes >= 1
    /\ result.iterations < max_iterations
    /\ \E i \in 1..Len(result.clusters) :
          /\ result.clusters[i].business_count = 0
          /\ result.clusters[i].centroid = businesses[selected_indices[i]].latitude

\* C28: on non-empty input with 1 <= k <= n and at least one pass allowed, a
\* returned result has a cluster with members, a cluster was scored (the
\* fallback was not taken), and the recommended location is the reported
\* centroid of a cluster with members.
C28_LocationOfNonEmptyCluster ==
    (pc = "done" /\ FeasibleInput /\ max_iterations >= 1) =>
        /\ \E i \in 1..Len(result.clusters) : result.clusters[i].business_count > 0
        /\ Len(cluster_scores) > 0
        /\ \E i \in 1..Len(result.clusters) :
              /\ result.clusters[i].business_count > 0
              /\ result.recommended_location = result.clusters[i].centroid

\* A result with a cluster without members next to clusters with members,
\* the location away from the centroid of all the businesses.
C28_Witness ==
    /\ pc = "done"
    /\ FeasibleInput
    /\ max_iterations >= 1
    /\ \E i \in 1..Len(result.clusters) : result.clusters[i].business_count = 0
    /\ result.recommended_location * Len(businesses) # SumSeq(Lats(businesses))

\* C30: in every competitor summary the counts within 500 m, 1 km and 2 km
\* do not decrease and do not exceed the number of competitors, and the
\* distance to the nearest competitor is None exactly when there is no
\* competitor: a competitor at the location itself is reported at distance 0.
C30_CountsMonotone ==
    pc = "done" =>
        LET summary == result.competitor_analysis
        IN  /\ 0 <= summary.competitors_within_500m
            /\ summary.competitors_within_500m <= summary.competitors_within_1km
            /\ summary.competitors_within_1km <= summary.competitors_within_2km
            /\ summary.competitors_within_2km <= Cardinality(Rivals)
            /\ summary.distance_to_nearest = None <=> Rivals = {}
            /\ (\E i \in Rivals : DistanceFromSite(i) = 0)
                  => summary.distance_to_nearest = Some(0)

\* A competitor at the recommended location itself, and competitors between
\* 1 km and 2 km from it.
C30_Witness ==
    /\ pc = "done"
    /\ \E i \in Rivals : DistanceFromSite(i) = 0
    /\ result.competitor_analysis.distance_to_nearest = Some(0)
    /\ result.competitor_analysis.competitors_within_1km
          < result.competitor_analysis.competitors_within_2km

\* C24: the distance from a point to another is the distance back, and the
\* distance from a point to itself is 0.
C24_DistanceSymmetric ==
    pc = "done" =>
        /\ result.forward = result.backward
        /\ result.forward >= 0
        /\ result.self = 0

\* Two points that differ in latitude and in longitude, a quarter of the
\* great circle apart.
C24_Witness ==
    /\ pc = "done"
    /\ businesses[1].latitude # businesses[2].latitude
    /\ businesses[1].longitude # businesses[2].longitude
    /\ result.forward = EARTH_RADIUS_KM
    /\ result.backward = EARTH_RADIUS_KM

\* C29: a returned result lists one cluster for each centroid, num_clusters
\* in all, with the ids 0, 1, ... in list order; each cluster's business_count
\* is the number of points listed in it and its colour is the palette entry
\* at its id modulo the length of the palette.
C29_ClusterListShape ==
    pc = "done" =>
        /\ Len(result.clusters) = num_clusters
        /\ \A i \in 1..Len(result.clusters) :
              /\ result.clusters[i].id = i - 1
              /\ result.clusters[i].business_count = Len(result.clusters[i].points)
              /\ result.clusters[i].color
                    = CLUSTER_COLORS[((i - 1) % Len(CLUSTER_COLORS)) + 1]

\* More clusters than the palette has colours: the ninth has the colour of
\* the first; the businesses are spread over two clusters.
C29_Witness ==
    /\ pc = "done"
    /\ Len(result.clusters) > Len(CLUSTER_COLORS)
    /\ result.clusters[Len(CLUSTER_COLORS) + 1].color = result.clusters[1].color
    /\ result.clusters[1].business_count > 0
    /\ result.clusters[2].business_count > 0

====
